---- MODULE Spec2Model ----
(***************************************************************************)
(* API-key dashboard: the file-backed key store (apiKeysStore), the remote *)
(* client selection (supabaseServer) and the /api/keys HTTP handlers.      *)
(*                                                                         *)
(* JavaScript strings are sequences of one-character strings, so that      *)
(* substring, startsWith and concatenation are computed, not assumed.      *)
(* Timestamps (Date.toISOString) are the integer clock `now`; ISO strings  *)
(* in UTC order as the instants they denote.  crypto.randomUUID is a       *)
(* counter: it returns a value no earlier call returned.                   *)
(***************************************************************************)
EXTENDS Integers, Sequences, FiniteSets, TLC

\* ------------------------------------------------------------------ bounds
MaxId == 6
MaxTime == 1
MaxCalls == 3
MaxArgId == 4
MaxRows == 1
MaxSeqCalls == 4
MaxOps == 2
Procs == {1, 2}

\* ------------------------------------------------------- JavaScript values
Undefined == <<"undefined">>
Null == [null |-> TRUE]
\* the booleans a function returns, as values comparable with Null and records
True == [bool |-> TRUE]
False == [bool |-> FALSE]

TypeOf(v) == IF v = Undefined THEN "undefined" ELSE "string"

\* mutant: a string of nothing but spaces counts as missing too
FalsyTrimmed(v) == v = Undefined \/ \A i \in 1..Len(v) : v[i] = " "

\* !v for a string or undefined
Falsy(v) == v = Undefined \/ v = <<>>

\* String.prototype.substring(0, n)
Substring(s, n) == SubSeq(s, 1, IF Len(s) < n THEN Len(s) ELSE n)

NameInputs == {<<"K">>, <<>>}
ValueInputs == {<<"p", "r", "o", "d", "_", "1", "2", "3", "4", "5", "6", "7">>, <<>>}
RandomHex == {<<"0", "f">>}

\* --------------------------------------------------------------- variables
VARIABLES
    file,      \* src/data/apiKeys.json: [kind: missing | corrupt | array, keys]
    call,      \* per caller: the file-store call in progress and its locals
    nextId,    \* next value crypto.randomUUID returns
    now,       \* the clock read by new Date()
    calls,     \* number of file-store calls made so far
    lastMutation \* history: the function, arguments and record id of the latest
                 \* createApiKey, updateApiKey or deleteApiKey that wrote its
                 \* change (Null before the first)

VARIABLES
    entry,     \* how this deployment is driven: "store" (callers of the store
               \* module's functions) or "http" (requests to the routes, which
               \* never call the store module)
    env,       \* process.env: [url, serviceKey, anonKey], "" when unset
    cached,    \* supabaseServer.js module variable: the client, or Null
    table,     \* the rows of the remote table api_keys, in insertion order
    nextRow,   \* next id the remote table assigns
    resp       \* the latest HTTP exchange: request, what the handler saw, response

VARIABLES
    probe,       \* a call of the key utilities: the argument and what each returned
    hookApiKeys, \* useApiKeys state apiKeys: the records handed to ApiKeysTable
    revealedIds  \* useApiKeys state revealedIds: a map from record ids to booleans

VARIABLES
    hook,        \* useApiKeys state: loading, error, form, editingId, showForm,
                 \* toastMessage, toastType
    tasks        \* the asynchronous calls of the hook: the refresh of the mount
                 \* effect (index 0) and each handleSubmit / handleDelete call,
                 \* with its request, its refresh and its toast timer

vars == <<entry, file, call, nextId, now, calls, lastMutation, env, cached, table, nextRow, resp,
          probe, hookApiKeys, revealedIds, hook, tasks>>
uiVars == <<probe, hookApiKeys, revealedIds>>
hookVars == <<hook, tasks>>
fileVars == <<file, call, nextId, now, calls, lastMutation>>
httpVars == <<env, cached, table, nextRow, resp>>

\* ------------------------------------------------------------- file store
MissingFile == [kind |-> "missing", keys |-> <<>>]
CorruptFile == [kind |-> "corrupt", keys |-> <<>>]
\* the file holds JSON that is not an array, such as {}
NotArrayFile == [kind |-> "notArray", keys |-> <<>>]

\* JSON.stringify(apiKeys, null, 2) written to the file and parsed back
JsonFile(apiKeys) == [kind |-> "array", keys |-> apiKeys]

\* mutant: the write keeps the records of the document that apiKeys lacks
fsWriteFileMerging(f, apiKeys) ==
    [kind |-> "array",
     keys |-> apiKeys \o SelectSeq(f.keys,
                  LAMBDA k : \A i \in 1..Len(apiKeys) : apiKeys[i].id # k.id)]

\* fs.writeFile(dataFilePath, JSON.stringify(apiKeys, null, 2)): the document
\* becomes apiKeys, whatever it held
fsWriteFile(f, apiKeys) == JsonFile(apiKeys)

generateMockKeyValue(prefix, random) == prefix \o <<"_">> \o random

ApiKey(id, name, value, createdAt, updatedAt) ==
    [id |-> id, name |-> name, value |-> value,
     createdAt |-> createdAt, updatedAt |-> updatedAt]

\* mutant: the staging seed gets the production prefix
generateSeedApiKeysOnePrefix(id0, nowIso, r1, r2, r3) ==
    << ApiKey(id0, <<"P", "r", "o", "d", "u", "c", "t", "i", "o", "n", " ", "K", "e", "y">>,
              generateMockKeyValue(<<"p", "r", "o", "d">>, r1), nowIso, nowIso),
       ApiKey(id0 + 1, <<"S", "t", "a", "g", "i", "n", "g", " ", "K", "e", "y">>,
              generateMockKeyValue(<<"p", "r", "o", "d">>, r2), nowIso, nowIso),
       ApiKey(id0 + 2, <<"L", "o", "c", "a", "l", " ", "D", "e", "v", " ", "K", "e", "y">>,
              generateMockKeyValue(<<"d", "e", "v">>, r3), nowIso, nowIso) >>

generateSeedApiKeys(id0, nowIso, r1, r2, r3) ==
    << ApiKey(id0, <<"P", "r", "o", "d", "u", "c", "t", "i", "o", "n", " ", "K", "e", "y">>,
              generateMockKeyValue(<<"p", "r", "o", "d">>, r1), nowIso, nowIso),
       ApiKey(id0 + 1, <<"S", "t", "a", "g", "i", "n", "g", " ", "K", "e", "y">>,
              generateMockKeyValue(<<"s", "t", "g">>, r2), nowIso, nowIso),
       ApiKey(id0 + 2, <<"L", "o", "c", "a", "l", " ", "D", "e", "v", " ", "K", "e", "y">>,
              generateMockKeyValue(<<"d", "e", "v">>, r3), nowIso, nowIso) >>

\* the ids of the records of a list
Ids(keys) == {keys[i].id : i \in 1..Len(keys)}

\* Array.prototype.findIndex((k) => k.id === apiKeyId); 0 stands for -1
FindIndex(all, apiKeyId) ==
    IF \E i \in 1..Len(all) : all[i].id = apiKeyId
    THEN CHOOSE i \in 1..Len(all) :
            /\ all[i].id = apiKeyId
            /\ \A j \in 1..(i - 1) : all[j].id # apiKeyId
    ELSE 0

\* all.find((k) => k.id === apiKeyId) || null
Find(all, apiKeyId) ==
    IF FindIndex(all, apiKeyId) = 0 THEN Null ELSE all[FindIndex(all, apiKeyId)]

\* mutant: the filter's test is inverted
RECURSIVE FilterOnly(_, _)
FilterOnly(all, apiKeyId) ==
    IF all = <<>> THEN <<>>
    ELSE IF Head(all).id = apiKeyId
         THEN <<Head(all)>> \o FilterOnly(Tail(all), apiKeyId)
         ELSE FilterOnly(Tail(all), apiKeyId)

\* all.filter((k) => k.id !== apiKeyId)
RECURSIVE FilterOut(_, _)
FilterOut(all, apiKeyId) ==
    IF all = <<>> THEN <<>>
    ELSE IF Head(all).id # apiKeyId
         THEN <<Head(all)>> \o FilterOut(Tail(all), apiKeyId)
         ELSE FilterOut(Tail(all), apiKeyId)

Idle == [op |-> "none", pc |-> "idle", phase |-> "none",
         apiKeyId |-> 0, name |-> Undefined, value |-> Undefined,
         all |-> <<>>, buf |-> <<>>, seeds |-> <<>>,
         existing |-> Null, ret |-> Null,
         before |-> MissingFile,   \* history: the file when the call started
         wrote |-> {}]             \* history: which of its writes the call made

InFlight(p) == call[p].pc \notin {"idle", "done", "threw"}

Ops == {"getAllApiKeys", "getApiKeyById", "createApiKey", "updateApiKey", "deleteApiKey"}

\* A caller enters one of the exported functions; each begins with
\* `await readAllApiKeys()`, whose first statement is ensureDataFileExists().
InvokeWithin(budget, p, op, apiKeyId, name, value) ==
    /\ ~InFlight(p)
    /\ calls < budget
    /\ calls' = calls + 1
    /\ call' = [call EXCEPT ![p] =
                 [Idle EXCEPT !.op = op, !.pc = "ensure", !.phase = "read",
                              !.apiKeyId = apiKeyId, !.name = name, !.value = value,
                              !.before = file]]
    /\ UNCHANGED <<file, nextId, now, lastMutation>>

Invoke(p, op, apiKeyId, name, value) ==
    InvokeWithin(MaxCalls, p, op, apiKeyId, name, value)

\* where ensureDataFileExists returns to
AfterEnsure(phase) == IF phase = "read" THEN "readFile" ELSE "writeFile"

\* ensureDataFileExists, up to the end of the try block: mkdir and access.
\* A missing file makes access reject; the catch block generates the seeds.
ensureDataFileExists(p) ==
    /\ call[p].pc = "ensure"
    /\ IF file.kind = "missing"
       THEN /\ nextId + 2 <= MaxId
            /\ \E r1 \in RandomHex, r2 \in RandomHex, r3 \in RandomHex :
                 call' = [call EXCEPT ![p].pc = "ensureWrite",
                            ![p].seeds = generateSeedApiKeys(nextId, now, r1, r2, r3)]
            /\ nextId' = nextId + 3
       ELSE /\ call' = [call EXCEPT ![p].pc = AfterEnsure(call[p].phase)]
            /\ UNCHANGED nextId
    /\ UNCHANGED <<file, now, calls, lastMutation>>

\* ensureDataFileExists, the catch block's fs.writeFile(seeds)
ensureDataFileExistsWrite(p) ==
    /\ call[p].pc = "ensureWrite"
    /\ file' = fsWriteFile(file, call[p].seeds)
    /\ call' = [call EXCEPT ![p].pc = AfterEnsure(call[p].phase),
                            ![p].wrote = @ \cup {"ensure"}]
    /\ UNCHANGED <<nextId, now, calls, lastMutation>>

\* mutant: an array is returned as parsed even when it holds nothing
IsArray(f) == f.kind = "array"

\* Array.isArray(parsed) && parsed.length > 0
IsNonEmptyArray(f) == f.kind = "array" /\ Len(f.keys) > 0

\* readAllApiKeys after ensureDataFileExists: fs.readFile and JSON.parse.
\* A non-empty array is returned; anything else is replaced by fresh seeds,
\* which writeAllApiKeys(seeds) stores before they are returned.
readAllApiKeys(p) ==
    /\ call[p].pc = "readFile"
    /\ file.kind # "missing"      \* readFile of a missing file rejects (ENOENT)
    /\ IF IsNonEmptyArray(file)
       THEN /\ call' = [call EXCEPT ![p].pc = "resume", ![p].all = file.keys]
            /\ UNCHANGED nextId
       ELSE /\ nextId + 2 <= MaxId
            /\ \E r1 \in RandomHex, r2 \in RandomHex, r3 \in RandomHex :
                 call' = [call EXCEPT ![p].pc = "ensure", ![p].phase = "seed",
                            ![p].buf = generateSeedApiKeys(nextId, now, r1, r2, r3)]
            /\ nextId' = nextId + 3
    /\ UNCHANGED <<file, now, calls, lastMutation>>

\* writeAllApiKeys after ensureDataFileExists: fs.writeFile(apiKeys).
\* Called by readAllApiKeys (phase seed: the seeds become the result of the
\* read) and by the mutating functions (phase write: the function returns).
writeAllApiKeys(p) ==
    /\ call[p].pc = "writeFile"
    /\ file' = fsWriteFile(file, call[p].buf)
    /\ IF call[p].phase = "seed"
       THEN /\ call' = [call EXCEPT ![p].pc = "resume", ![p].all = call[p].buf,
                                    ![p].wrote = @ \cup {"seed"}]
            /\ UNCHANGED lastMutation
       ELSE /\ call' = [call EXCEPT ![p].pc = "done", ![p].wrote = @ \cup {"write"}]
            /\ lastMutation' = [op |-> call[p].op, name |-> call[p].name,
                                 value |-> call[p].value,
                                 id |-> IF call[p].op = "createApiKey"
                                        THEN call[p].ret.id ELSE call[p].apiKeyId]
    /\ UNCHANGED <<nextId, now, calls>>

\* what a rejected fs.writeFile can leave: the document untouched (the open
\* failed) or truncated to text that does not parse (the open truncated the
\* file and the write of the new text failed)
fsWriteFileRejected(f) == {f, CorruptFile}

\* the value a call rejects with
WriteError == [error |-> "writeFile"]

\* writeAllApiKeys of a mutating function whose fs.writeFile rejects: nothing
\* catches the rejection, so the exported function rejects with it
writeAllApiKeysRejects(p) ==
    /\ call[p].pc = "writeFile" /\ call[p].phase = "write"
    /\ file' \in fsWriteFileRejected(file)
    /\ call' = [call EXCEPT ![p].pc = "threw", ![p].ret = WriteError,
                            ![p].wrote = @ \cup {"rejected"}]
    /\ UNCHANGED <<nextId, now, calls, lastMutation>>

\* getAllApiKeys: return readAllApiKeys()
getAllApiKeys(p) ==
    /\ call[p].pc = "resume" /\ call[p].op = "getAllApiKeys"
    /\ call' = [call EXCEPT ![p].pc = "done", ![p].ret = [list |-> call[p].all]]
    /\ UNCHANGED <<file, nextId, now, calls, lastMutation>>

\* getApiKeyById, after the read
getApiKeyById(p) ==
    /\ call[p].pc = "resume" /\ call[p].op = "getApiKeyById"
    /\ call' = [call EXCEPT ![p].pc = "done",
                            ![p].ret = Find(call[p].all, call[p].apiKeyId)]
    /\ UNCHANGED <<file, nextId, now, calls, lastMutation>>

\* mutant: createdAt and updatedAt are read from the clock separately
NewKeyTwoClocks(id, name, value, nowIso) == ApiKey(id, name, value, nowIso, nowIso + 1)

\* the record createApiKey builds
NewKey(id, name, value, nowIso) == ApiKey(id, name, value, nowIso, nowIso)

\* createApiKey, from the read to `await writeAllApiKeys(all)`
createApiKey(p) ==
    /\ call[p].pc = "resume" /\ call[p].op = "createApiKey"
    /\ nextId <= MaxId
    /\ LET newKey == NewKey(nextId, call[p].name, call[p].value, now)
       IN call' = [call EXCEPT ![p].pc = "ensure", ![p].phase = "write",
                               ![p].buf = Append(call[p].all, newKey),
                               ![p].ret = newKey]
    /\ nextId' = nextId + 1
    /\ UNCHANGED <<file, now, calls, lastMutation>>

\* mutant: updatedAt is refreshed only when a field changes
UpdatedIfChanged(existing, name, value, nowIso) ==
    [existing EXCEPT
        !.name = IF TypeOf(name) = "string" THEN name ELSE existing.name,
        !.value = IF TypeOf(value) = "string" THEN value ELSE existing.value,
        !.updatedAt = IF /\ TypeOf(name) = "string" => name = existing.name
                         /\ TypeOf(value) = "string" => value = existing.value
                      THEN existing.updatedAt ELSE nowIso]

\* mutant: the update rebuilds the record and stamps both timestamps
UpdatedRestamped(existing, name, value, nowIso) ==
    ApiKey(existing.id,
           IF TypeOf(name) = "string" THEN name ELSE existing.name,
           IF TypeOf(value) = "string" THEN value ELSE existing.value,
           nowIso, nowIso)

\* the record updateApiKey builds from the existing one
Updated(existing, name, value, nowIso) ==
    [existing EXCEPT
        !.name = IF TypeOf(name) = "string" THEN name ELSE existing.name,
        !.value = IF TypeOf(value) = "string" THEN value ELSE existing.value,
        !.updatedAt = nowIso]

\* updateApiKey, from the read to `await writeAllApiKeys(all)` or `return null`
updateApiKey(p) ==
    /\ call[p].pc = "resume" /\ call[p].op = "updateApiKey"
    /\ LET index == FindIndex(call[p].all, call[p].apiKeyId)
       IN IF index = 0
          THEN call' = [call EXCEPT ![p].pc = "done", ![p].ret = Null]
          ELSE LET existing == call[p].all[index]
                   updated == Updated(existing, call[p].name, call[p].value, now)
               IN call' = [call EXCEPT ![p].pc = "ensure", ![p].phase = "write",
                                       ![p].existing = existing,
                                       ![p].buf = [call[p].all EXCEPT ![index] = updated],
                                       ![p].ret = updated]
    /\ UNCHANGED <<file, nextId, now, calls, lastMutation>>

\* deleteApiKey, from the read to `await writeAllApiKeys(next)` or `return false`
deleteApiKey(p) ==
    /\ call[p].pc = "resume" /\ call[p].op = "deleteApiKey"
    /\ LET next == FilterOut(call[p].all, call[p].apiKeyId)
       IN IF Len(next) = Len(call[p].all)
          THEN call' = [call EXCEPT ![p].pc = "done", ![p].ret = False]
          ELSE call' = [call EXCEPT ![p].pc = "ensure", ![p].phase = "write",
                                    ![p].buf = next, ![p].ret = True]
    /\ UNCHANGED <<file, nextId, now, calls, lastMutation>>

\* time passes
Tick ==
    /\ now < MaxTime
    /\ now' = now + 1
    /\ UNCHANGED <<file, call, nextId, calls, lastMutation>>


\* ------------------------------------------------------------ remote client
\* createClient(url, key): throws on a URL it cannot parse
CreateClientThrows(url) == url = "bad"

\* mutant: the environment is consulted before the cached client
getSupabaseServerClientUncached(c, e) ==
    LET url == e.url
        key == IF e.serviceKey # "" THEN e.serviceKey ELSE e.anonKey
    IN IF url = "" \/ key = "" \/ CreateClientThrows(url)
       THEN [client |-> Null, cached |-> c]
       ELSE IF c # Null THEN [client |-> c, cached |-> c]
       ELSE [client |-> [url |-> url, key |-> key],
             cached |-> [url |-> url, key |-> key]]

\* getSupabaseServerClient(): [client, cached] = the value returned and the
\* module variable after the call
getSupabaseServerClient(c, e) ==
    IF c # Null THEN [client |-> c, cached |-> c]
    ELSE LET url == e.url
             key == IF e.serviceKey # "" THEN e.serviceKey ELSE e.anonKey
         IN IF url = "" \/ key = ""
            THEN [client |-> Null, cached |-> c]
            ELSE IF CreateClientThrows(url)
                 THEN [client |-> Null, cached |-> c]
                 ELSE [client |-> [url |-> url, key |-> key],
                       cached |-> [url |-> url, key |-> key]]

EnvValues == [url : {"", "bad", "ok"}, serviceKey : {"", "sk"}, anonKey : {"", "ak"}]

\* the deployment sets or clears the environment variables
SetEnv(e) ==
    /\ e # env
    /\ Cardinality({k \in DOMAIN e : e[k] # env[k]}) = 1
    /\ env' = e
    /\ UNCHANGED <<fileVars, cached, table, nextRow, resp>>

\* ------------------------------------------------------------ remote table
\* mutant: the right operand is taken even when the left one is present
CoalesceRight(a, b) == b

\* a nullable column holds <<>> or <<v>>;  a ?? b
Coalesce(a, b) == IF a = <<>> THEN b ELSE a[1]

Row(id, name, value, created_at, updated_at) ==
    [id |-> id, name |-> name, value |-> value,
     created_at |-> created_at, updated_at |-> updated_at]

\* the object every handler builds from a row
FromRow(r) == ApiKey(r.id, r.name, r.value, r.created_at,
                     Coalesce(r.updated_at, r.created_at))

RowIndex(rows, id) ==
    IF \E i \in 1..Len(rows) : rows[i].id = id
    THEN CHOOSE i \in 1..Len(rows) : rows[i].id = id
    ELSE 0

RECURSIVE RowsWithout(_, _)
RowsWithout(rows, id) ==
    IF rows = <<>> THEN <<>>
    ELSE IF Head(rows).id # id
         THEN <<Head(rows)>> \o RowsWithout(Tail(rows), id)
         ELSE RowsWithout(Tail(rows), id)

\* .order("updated_at", { ascending: false }): descending, NULLs first,
\* rows with equal keys in any order
OrderedDesc(rows) ==
    \A i \in 1..(Len(rows) - 1) :
        \/ rows[i].updated_at = <<>>
        \/ /\ rows[i + 1].updated_at # <<>>
           /\ rows[i].updated_at[1] >= rows[i + 1].updated_at[1]

Orderings(rows) ==
    { [i \in 1..Len(rows) |-> rows[f[i]]] :
        f \in { g \in [1..Len(rows) -> 1..Len(rows)] :
                  \A i, j \in 1..Len(rows) : i # j => g[i] # g[j] } }

SelectOrdered(rows) == { s \in Orderings(rows) : OrderedDesc(s) }

\* what a remote query can do: answer, answer with an error object, or throw
QueryOutcomes == {"ok", "error", "throw"}
RemoteErrorMessage == "remote error"
\* .single() on a result of zero rows
NoRowsMessage == "JSON object requested, multiple (or no) rows returned"

\* --------------------------------------------------------------- handlers
\* mutant: the sample records are listed oldest first
mockApiKeysOldestFirst ==
    << ApiKey(<<"3">>, <<"G", "o", "o", "g", "l", "e", " ", "A", "I", " ", "A", "P", "I", " ", "K", "e", "y">>,
              <<"A", "I", "z", "a", ".", ".", ".">>, -3, -3),
       ApiKey(<<"2">>, <<"A", "n", "t", "h", "r", "o", "p", "i", "c", " ", "A", "P", "I", " ", "K", "e", "y">>,
              <<"s", "k", "-", "a", "n", "t", "-", ".", ".", ".">>, -2, -2),
       ApiKey(<<"1">>, <<"O", "p", "e", "n", "A", "I", " ", "A", "P", "I", " ", "K", "e", "y">>,
              <<"s", "k", "-", ".", ".", ".">>, -1, -1) >>

mockApiKeys ==
    << ApiKey(<<"1">>, <<"O", "p", "e", "n", "A", "I", " ", "A", "P", "I", " ", "K", "e", "y">>,
              <<"s", "k", "-", ".", ".", ".">>, -1, -1),
       ApiKey(<<"2">>, <<"A", "n", "t", "h", "r", "o", "p", "i", "c", " ", "A", "P", "I", " ", "K", "e", "y">>,
              <<"s", "k", "-", "a", "n", "t", "-", ".", ".", ".">>, -2, -2),
       ApiKey(<<"3">>, <<"G", "o", "o", "g", "l", "e", " ", "A", "I", " ", "A", "P", "I", " ", "K", "e", "y">>,
              <<"A", "I", "z", "a", ".", ".", ".">>, -3, -3) >>

NoResp == [handler |-> "none", status |-> 0, message |-> "", key |-> Null,
           keys |-> <<>>, success |-> FALSE,
           id |-> <<>>, name |-> Undefined, value |-> Undefined, bodyOk |-> TRUE,
           asked |-> FALSE, supabase |-> Null, query |-> "none",
           \* history: `cached` as the handler found it, and whether the
           \* exchange before this one was a create answered 201 without a client
           was |-> Null, afterCreate |-> FALSE]

\* NextResponse.json({ message }, { status })
MessageResponse(r, status, message) ==
    [r EXCEPT !.status = status, !.message = message]

\* NextResponse.json(record, { status }); the default status is 200
KeyResponse(r, status, key) == [r EXCEPT !.status = status, !.key = key]

\* NextResponse.json(records, { status })
ListResponse(r, status, keys) == [r EXCEPT !.status = status, !.keys = keys]

\* mutant: a missing client is reported as a missing record
NotConfiguredAsNotFound(r) == MessageResponse(r, 404, "Not found")

\* the answer when getSupabaseServerClient() returned null (GET by id, PUT, DELETE)
NotConfigured(r) == MessageResponse(r, 503, "API not configured")

\* mutant: a failed write degrades to the sample records, as the list does
QueryErrorDegraded(r, message) == ListResponse(r, 200, mockApiKeys)

\* the answer to a remote query that returned an error object
QueryError(r, message) == MessageResponse(r, 500, message)

\* the answer of a catch block
InternalError(r) == MessageResponse(r, 500, "Internal server error")

\* mutant: the list reports the fault instead of degrading
MockResponseAsError(r) == MessageResponse(r, 500, "Failed to load")

\* the answer of GET /api/keys when it has no remote data
MockResponse(r) == ListResponse(r, 200, mockApiKeys)

\* mutant: the insert is acknowledged but the row is not stored
InsertLost(rows, row) == rows

\* .insert({ name, value }): the table gains the row
Insert(rows, row) == Append(rows, row)

\* the request of an exchange, and what the handler saw: whether it called
\* getSupabaseServerClient, the client it got, how its remote query ended
Request(handler, id, name, value, bodyOk, asked, client, query) ==
    [NoResp EXCEPT !.handler = handler, !.id = id, !.name = name,
                   !.value = value, !.bodyOk = bodyOk, !.asked = asked,
                   !.supabase = client, !.was = IF asked THEN cached ELSE Null,
                   !.afterCreate = /\ resp.handler = "POST" /\ resp.status = 201
                                   /\ resp.supabase = Null,
                   !.query = IF asked /\ client # Null THEN query ELSE "none"]

\* .maybeSingle(): zero rows is data null without an error
MaybeSingle(rows) ==
    IF Len(rows) = 0 THEN [data |-> Null, error |-> ""]
    ELSE [data |-> rows[1], error |-> ""]

\* .single(): zero rows is an error
Single(rows) ==
    IF Len(rows) = 0 THEN [data |-> Null, error |-> NoRowsMessage]
    ELSE [data |-> rows[1], error |-> ""]

\* .eq("id", id)
RECURSIVE RowsWith(_, _)
RowsWith(rows, id) ==
    IF rows = <<>> THEN <<>>
    ELSE IF Head(rows).id = id
         THEN <<Head(rows)>> \o RowsWith(Tail(rows), id)
         ELSE RowsWith(Tail(rows), id)


\* GET /api/keys/{id}
GETById(id, outcome) ==
    LET g == getSupabaseServerClient(cached, env)
        rq == Request("GET", id, Undefined, Undefined, TRUE, TRUE, g.client, outcome)
        q == MaybeSingle(RowsWith(table, id))
    IN /\ cached' = g.cached
       /\ resp' = IF g.client = Null
                  THEN NotConfigured(rq)
                  ELSE IF outcome = "throw"
                  THEN InternalError(rq)
                  ELSE IF outcome = "error"
                  THEN QueryError(rq, RemoteErrorMessage)
                  ELSE IF q.data = Null
                  THEN MessageResponse(rq, 404, "Not found")
                  ELSE KeyResponse(rq, 200, FromRow(q.data))
       /\ UNCHANGED <<fileVars, env, table, nextRow>>

\* the row an update leaves: updates holds updated_at and the string fields
UpdatedRow(r, name, value, nowIso) ==
    [r EXCEPT !.updated_at = <<nowIso>>,
              !.name = IF TypeOf(name) = "string" THEN name ELSE r.name,
              !.value = IF TypeOf(value) = "string" THEN value ELSE r.value]

\* PUT /api/keys/{id}
PUT(id, bodyOk, name, value, outcome) ==
    IF ~bodyOk
    THEN \* request.json() rejects
         /\ resp' = InternalError(Request("PUT", id, Undefined, Undefined, FALSE, FALSE, Null, outcome))
         /\ UNCHANGED <<fileVars, env, cached, table, nextRow>>
    ELSE
    LET g == getSupabaseServerClient(cached, env)
        rq == Request("PUT", id, name, value, TRUE, TRUE, g.client, outcome)
        index == RowIndex(table, id)
        after == IF index = 0 THEN table
                 ELSE [table EXCEPT ![index] = UpdatedRow(table[index], name, value, now)]
        q == Single(RowsWith(after, id))
    IN /\ cached' = g.cached
       /\ IF g.client = Null
          THEN /\ resp' = NotConfigured(rq)
               /\ UNCHANGED table
          ELSE IF outcome = "throw"
          THEN /\ resp' = InternalError(rq)
               /\ UNCHANGED table
          ELSE IF outcome = "error"
          THEN /\ resp' = QueryError(rq, RemoteErrorMessage)
               /\ UNCHANGED table
          ELSE /\ table' = after
               /\ resp' = IF q.error # ""
                          THEN QueryError(rq, q.error)
                          ELSE IF q.data = Null
                          THEN MessageResponse(rq, 404, "Not found")
                          ELSE KeyResponse(rq, 200, FromRow(q.data))
       /\ UNCHANGED <<fileVars, env, nextRow>>

\* DELETE /api/keys/{id}
DELETE(id, outcome) ==
    LET g == getSupabaseServerClient(cached, env)
        rq == Request("DELETE", id, Undefined, Undefined, TRUE, TRUE, g.client, outcome)
        count == Len(RowsWith(table, id))
    IN /\ cached' = g.cached
       /\ IF g.client = Null
          THEN /\ resp' = NotConfigured(rq)
               /\ UNCHANGED table
          ELSE IF outcome = "throw"
          THEN /\ resp' = InternalError(rq)
               /\ UNCHANGED table
          ELSE IF outcome = "error"
          THEN /\ resp' = QueryError(rq, RemoteErrorMessage)
               /\ UNCHANGED table
          ELSE /\ table' = RowsWithout(table, id)
               /\ resp' = IF count = 0
                          THEN MessageResponse(rq, 404, "Not found")
                          ELSE [rq EXCEPT !.status = 200, !.success = TRUE]
       /\ UNCHANGED <<fileVars, env, nextRow>>

\* (data || []).map(r => ...)
MapFromRow(rows) == [i \in 1..Len(rows) |-> FromRow(rows[i])]

\* GET /api/keys
GET(outcome) ==
    LET g == getSupabaseServerClient(cached, env)
        rq == Request("LIST", <<>>, Undefined, Undefined, TRUE, TRUE, g.client, outcome)
    IN /\ cached' = g.cached
       /\ IF g.client # Null
          THEN IF outcome = "throw"
               THEN resp' = MockResponse(rq)
               ELSE IF outcome = "error"
               THEN resp' = MockResponse(rq)
               ELSE \E data \in SelectOrdered(table) :
                        resp' = ListResponse(rq, 200, MapFromRow(data))
          ELSE resp' = MockResponse(rq)
       /\ UNCHANGED <<fileVars, env, table, nextRow>>

\* the record POST answers with when no client is configured
UnpersistedKey(name, value, ms) ==
    ApiKey(<<"ms", ms>>, name, Substring(value, 10) \o <<".", ".", ".">>, ms, ms)

\* POST /api/keys
POST(bodyOk, name, value, outcome, updatedAtDefault) ==
    IF ~bodyOk
    THEN \* request.json() rejects
         /\ resp' = InternalError(Request("POST", <<>>, Undefined, Undefined, FALSE, FALSE, Null, outcome))
         /\ UNCHANGED <<fileVars, env, cached, table, nextRow>>
    ELSE IF Falsy(name) \/ Falsy(value)
    THEN /\ resp' = MessageResponse(
                       Request("POST", <<>>, name, value, TRUE, FALSE, Null, outcome),
                       400, "'name' and 'value' are required")
         /\ UNCHANGED <<fileVars, env, cached, table, nextRow>>
    ELSE
    LET g == getSupabaseServerClient(cached, env)
        rq == Request("POST", <<>>, name, value, TRUE, TRUE, g.client, outcome)
        row == Row(<<"uuid", nextRow>>, name, value, now, updatedAtDefault)
        q == Single(<<row>>)
    IN /\ cached' = g.cached
       /\ IF g.client # Null
          THEN IF outcome = "throw"
               THEN /\ resp' = InternalError(rq)
                    /\ UNCHANGED <<table, nextRow>>
               ELSE IF outcome = "error"
               THEN /\ resp' = QueryError(rq, RemoteErrorMessage)
                    /\ UNCHANGED <<table, nextRow>>
               ELSE /\ nextRow <= MaxRows
                    /\ table' = Insert(table, row)
                    /\ nextRow' = nextRow + 1
                    /\ resp' = IF q.error # ""
                               THEN QueryError(rq, q.error)
                               ELSE KeyResponse(rq, 201, FromRow(q.data))
          ELSE /\ resp' = KeyResponse(rq, 201, UnpersistedKey(name, value, now))
               /\ UNCHANGED <<table, nextRow>>
       /\ UNCHANGED <<fileVars, env>>


\* ---------------------------------------------------------- specifications
\* the variables of the file store before its first call
InitFileVars ==
    /\ call = [p \in Procs |-> Idle]
    /\ nextId = 1
    /\ now = 0
    /\ calls = 0
    /\ lastMutation = Null

\* the variables of the handlers before the first request
InitHttpVars ==
    /\ cached = Null
    /\ table = <<>>
    /\ nextRow = 1
    /\ resp = NoResp

\* no utility called, nothing on the dashboard: useState([]) and useState({})
\* the useState initial values of the hook, none of its calls started; a
\* value that can be null is <<>> or <<v>>
EmptyForm == [name |-> <<>>, value |-> <<>>]

InitialHook ==
    [loading |-> FALSE, error |-> "", form |-> EmptyForm, editingId |-> <<>>,
     showForm |-> FALSE, toastMessage |-> "", toastType |-> "success",
     \* history: for how many seconds the toast has been on display, counted
     \* up to the delay of its timer
     toastAge |-> 0]

\* one asynchronous call: what it is, where it stands, the request it sent,
\* whether it creates, the rank of its refresh among the refreshes started,
\* the list its refresh was answered with and the seconds left to its toast
\* timer (-1 without one)
NoTask ==
    [kind |-> "none", pc |-> "idle", method |-> "", id |-> <<>>, body |-> EmptyForm,
     created |-> FALSE, order |-> 0, data |-> <<>>, due |-> -1]

InitHookVars ==
    /\ hook = InitialHook
    /\ tasks = [i \in 0..MaxOps |-> NoTask]

NoProbe == [value |-> Undefined, type |-> "none", masked |-> <<>>, applied |-> {}]

InitUiVars ==
    /\ probe = NoProbe
    /\ hookApiKeys = <<>>
    /\ revealedIds = <<>>
    /\ InitHookVars

\* the file store starts with no data file, or with one left unusable or
\* emptied, and no remote backend configured
InitStore ==
    /\ entry = "store"
    /\ file \in {MissingFile, CorruptFile, NotArrayFile, JsonFile(<<>>)}
    /\ InitFileVars
    /\ env = [url |-> "", serviceKey |-> "", anonKey |-> ""]
    /\ InitHttpVars
    /\ InitUiVars

\* the handlers start in any environment
InitHttp ==
    /\ entry = "http"
    /\ file = MissingFile
    /\ InitFileVars
    /\ env \in EnvValues
    /\ InitHttpVars
    /\ InitUiVars

Init == InitStore \/ InitHttp

\* the arguments a caller passes to each exported function
IdInputs == 1..MaxArgId
UpdateNames == {<<"K">>, Undefined}
UpdateValues == {<<"d", "e", "v", "_", "9">>, Undefined}

InvokeAny(p) ==
    \/ Invoke(p, "getAllApiKeys", 0, Undefined, Undefined)
    \/ \E id \in IdInputs : Invoke(p, "getApiKeyById", id, Undefined, Undefined)
    \/ \E n \in NameInputs, v \in ValueInputs : Invoke(p, "createApiKey", 0, n, v)
    \/ \E id \in IdInputs, n \in UpdateNames, v \in UpdateValues :
          Invoke(p, "updateApiKey", id, n, v)
    \/ \E id \in IdInputs : Invoke(p, "deleteApiKey", id, Undefined, Undefined)

\* one step of the call of caller p
Step(p) ==
    \/ ensureDataFileExists(p)
    \/ ensureDataFileExistsWrite(p)
    \/ readAllApiKeys(p)
    \/ writeAllApiKeys(p)
    \/ getAllApiKeys(p)
    \/ getApiKeyById(p)
    \/ createApiKey(p)
    \/ updateApiKey(p)
    \/ deleteApiKey(p)

\* a single caller, which starts a call only when its previous one returned
Caller == CHOOSE p \in Procs : TRUE

FileStep ==
    \/ \E p \in Procs : Step(p)
    \/ Tick

\* the store module, one call at a time, on a file system whose writes can fail
NextStore ==
    /\ entry = "store"
    /\ \/ FileStep
       \/ InvokeAny(Caller)
       \/ \E p \in Procs : writeAllApiKeysRejects(p)
    /\ UNCHANGED <<entry, httpVars, uiVars, hookVars>>

\* the store module with one call per caller, the calls overlapping at their
\* awaits, on a file system whose writes succeed
InvokeOnce(p) ==
    /\ call[p].pc = "idle"
    /\ InvokeAny(p)

NextConc ==
    /\ FileStep \/ \E p \in Procs : InvokeOnce(p)
    /\ UNCHANGED <<entry, httpVars, uiVars, hookVars>>

SpecConc == InitStore /\ [][NextConc]_vars

\* the store module used by one caller for a longer sequence of calls, each
\* function with one choice of name and value, on a file system whose writes
\* succeed
SeqIds == 1..3

InvokeSeq(p) ==
    \/ InvokeWithin(MaxSeqCalls, p, "getAllApiKeys", 0, Undefined, Undefined)
    \/ \E id \in {1} : InvokeWithin(MaxSeqCalls, p, "getApiKeyById", id, Undefined, Undefined)
    \/ InvokeWithin(MaxSeqCalls, p, "createApiKey", 0, <<"K">>, <<"d", "e", "v", "_", "9">>)
    \/ \E id \in {1} : InvokeWithin(MaxSeqCalls, p, "updateApiKey", id, <<"K">>, Undefined)
    \/ \E id \in SeqIds : InvokeWithin(MaxSeqCalls, p, "deleteApiKey", id, Undefined, Undefined)

NextSeq ==
    /\ FileStep \/ InvokeSeq(Caller)
    /\ UNCHANGED <<entry, httpVars, uiVars, hookVars>>

SpecSeq == InitStore /\ [][NextSeq]_vars

\* ------------------------------------------------------ POST /api/validate
Lower == {"a", "b", "c", "d", "e", "f", "g", "h", "i", "j", "k", "l", "m",
          "n", "o", "p", "q", "r", "s", "t", "u", "v", "w", "x", "y", "z"}
Upper == {"A", "B", "C", "D", "E", "F", "G", "H", "I", "J", "K", "L", "M",
          "N", "O", "P", "Q", "R", "S", "T", "U", "V", "W", "X", "Y", "Z"}
Digits == {"0", "1", "2", "3", "4", "5", "6", "7", "8", "9"}
\* [0-9a-f] under the i flag
HexDigits == Digits \cup {"a", "b", "c", "d", "e", "f", "A", "B", "C", "D", "E", "F"}
\* [a-zA-Z0-9]
AlNum == Lower \cup Upper \cup Digits
\* [A-Za-z0-9-_]
TokenChars == AlNum \cup {"-", "_"}
\* the characters String.prototype.trim removes
WhiteSpace == {" ", "\t", "\n"}

\* String.prototype.trim()
RECURSIVE TrimStart(_)
TrimStart(s) ==
    IF s # <<>> /\ Head(s) \in WhiteSpace THEN TrimStart(Tail(s)) ELSE s

RECURSIVE TrimEnd(_)
TrimEnd(s) ==
    IF s # <<>> /\ s[Len(s)] \in WhiteSpace THEN TrimEnd(SubSeq(s, 1, Len(s) - 1)) ELSE s

Trim(s) == TrimEnd(TrimStart(s))

\* /^[0-9a-f]{8}-[0-9a-f]{4}-[1-5][0-9a-f]{3}-[89ab][0-9a-f]{3}-[0-9a-f]{12}$/i
uuidPattern(s) ==
    /\ Len(s) = 36
    /\ \A i \in 1..36 :
          CASE i \in {9, 14, 19, 24} -> s[i] = "-"
            [] i = 15 -> s[i] \in {"1", "2", "3", "4", "5"}
            [] i = 20 -> s[i] \in {"8", "9", "a", "b", "A", "B"}
            [] OTHER -> s[i] \in HexDigits

\* /^sk-[a-zA-Z0-9]{32,}$/
apiKeyPattern(s) ==
    /\ Len(s) >= 35
    /\ SubSeq(s, 1, 3) = <<"s", "k", "-">>
    /\ \A i \in 4..Len(s) : s[i] \in AlNum

\* /^[A-Za-z0-9-_]+\.[A-Za-z0-9-_]+\.[A-Za-z0-9-_]*$/
jwtPattern(s) ==
    \E i, j \in 1..Len(s) :
        /\ 1 < i /\ i + 1 < j
        /\ s[i] = "." /\ s[j] = "."
        /\ \A k \in 1..Len(s) : k \notin {i, j} => s[k] \in TokenChars

\* validateApiKeyPattern(apiKey)
validateApiKeyPattern(apiKey) ==
    \/ uuidPattern(apiKey)
    \/ apiKeyPattern(apiKey)
    \/ jwtPattern(apiKey)
    \/ (Len(apiKey) >= 20 /\ \A i \in 1..Len(apiKey) : apiKey[i] \in TokenChars)

\* .eq("value", trimmedApiKey)
RowsWithValue(rows, value) == SelectSeq(rows, LAMBDA r : r.value = value)

\* the answer of POST /api/validate to a key that passed the format check
ValidateAnswer(rq, client, outcome, rows, trimmedApiKey) ==
    IF client = Null
    THEN IF validateApiKeyPattern(trimmedApiKey)
         THEN MessageResponse(rq, 200, "Valid API Key, /protected can be accessed")
         ELSE MessageResponse(rq, 401, "Invalid API Key")
    ELSE IF outcome = "throw"
    THEN MessageResponse(rq, 400, "Invalid request format")
    ELSE IF outcome = "error" \/ Len(rows) > 1      \* .maybeSingle() on several rows
    THEN MessageResponse(rq, 500, "Database error occurred")
    ELSE IF Len(rows) = 1 /\ rows[1].value = trimmedApiKey
    THEN MessageResponse(rq, 200, "Valid API Key, /protected can be accessed")
    ELSE MessageResponse(rq, 401, "Invalid API Key")

\* POST /api/validate with body { apiKey }
POSTValidate(bodyOk, apiKey, outcome) ==
    IF ~bodyOk
    THEN /\ resp' = MessageResponse(
                       Request("VALIDATE", <<>>, Undefined, apiKey, FALSE, FALSE, Null, "none"),
                       400, "Invalid request format")
         /\ UNCHANGED <<fileVars, env, cached, table, nextRow>>
    ELSE IF Falsy(apiKey) \/ Len(Trim(apiKey)) = 0
    THEN /\ resp' = MessageResponse(
                       Request("VALIDATE", <<>>, Undefined, apiKey, TRUE, FALSE, Null, "none"),
                       400, "Invalid API key format")
         /\ UNCHANGED <<fileVars, env, cached, table, nextRow>>
    ELSE LET trimmedApiKey == Trim(apiKey)
             g == getSupabaseServerClient(cached, env)
             rq == Request("VALIDATE", <<>>, Undefined, apiKey, TRUE, TRUE, g.client, outcome)
         IN /\ cached' = g.cached
            /\ resp' = ValidateAnswer(rq, g.client, outcome,
                                      RowsWithValue(table, trimmedApiKey), trimmedApiKey)
            /\ UNCHANGED <<fileVars, env, table, nextRow>>

\* the keys submitted for validation: absent, empty, blank, the value the
\* requests store (padded with spaces), and keys that are stored nowhere
ValidateKeys ==
    { Undefined, <<>>, <<" ">>,
      <<" ">> \o <<"p", "r", "o", "d", "_", "1", "2", "3", "4", "5", "6", "7">> \o <<" ">>,
      <<"a", ".", "b", ".">>,
      <<"z", "z">> }

\* the HTTP handlers over the remote table
RequestIds == {<<"uuid", n>> : n \in 1..MaxRows} \cup {<<"1">>}
BodyNames == NameInputs \cup {Undefined}
BodyValues == (ValueInputs \ {<<>>}) \cup {Undefined}

\* a remote query is made, and can fail, only when there is a client
Outcomes ==
    IF getSupabaseServerClient(cached, env).client = Null THEN {"ok"}
    ELSE QueryOutcomes

\* updated_at of an inserted row: the table's default, absent or now()
UpdatedAtDefaults ==
    IF getSupabaseServerClient(cached, env).client = Null THEN {<<>>}
    ELSE {<<>>, <<now>>}

HttpStep ==
    \/ \E e \in EnvValues : SetEnv(e)
    \/ Tick /\ UNCHANGED httpVars
    \/ \E o \in Outcomes : GET(o)
    \/ \E id \in RequestIds, o \in Outcomes : GETById(id, o)
    \/ \E id \in RequestIds, n \in BodyNames, v \in BodyValues, o \in Outcomes :
          PUT(id, TRUE, n, v, o)
    \/ \E id \in RequestIds : PUT(id, FALSE, Undefined, Undefined, "ok")
    \/ \E id \in RequestIds, o \in Outcomes : DELETE(id, o)
    \/ \E n \in BodyNames, v \in BodyValues :
          IF Falsy(n) \/ Falsy(v)
          THEN POST(TRUE, n, v, "ok", <<>>)
          ELSE \/ \E d \in UpdatedAtDefaults : POST(TRUE, n, v, "ok", d)
               \/ \E o \in Outcomes \ {"ok"} : POST(TRUE, n, v, o, <<>>)
    \/ POST(FALSE, Undefined, Undefined, "ok", <<>>)
    \/ \E k \in ValidateKeys, o \in Outcomes : POSTValidate(TRUE, k, o)
    \/ POSTValidate(FALSE, Undefined, "ok")

NextHttp ==
    /\ entry = "http"
    /\ HttpStep
    /\ UNCHANGED <<entry, uiVars, hookVars>>

\* either interface, driven sequentially
Next == NextStore \/ NextHttp

Spec == Init /\ [][Next]_vars


\* ------------------------------------------------------------ key utilities
\* String.prototype.startsWith(prefix)
StartsWith(s, prefix) ==
    Len(s) >= Len(prefix) /\ SubSeq(s, 1, Len(prefix)) = prefix

\* a parameter declared `value = ""`: undefined is replaced by the default
DefaultEmpty(value) == IF value = Undefined THEN <<>> ELSE value

\* mutant: the prefixes are tested without their underscore
getKeyTypeLoose(value) ==
    LET v == DefaultEmpty(value)
    IN IF StartsWith(v, <<"p", "r", "o", "d">>) THEN "prod"
       ELSE IF StartsWith(v, <<"s", "t", "g">>) THEN "stg"
       ELSE IF StartsWith(v, <<"d", "e", "v">>) THEN "dev"
       ELSE "custom"

\* getKeyType(value = "")
getKeyType(value) ==
    LET v == DefaultEmpty(value)
    IN IF StartsWith(v, <<"p", "r", "o", "d", "_">>) THEN "prod"
       ELSE IF StartsWith(v, <<"s", "t", "g", "_">>) THEN "stg"
       ELSE IF StartsWith(v, <<"d", "e", "v", "_">>) THEN "dev"
       ELSE "custom"

\* String.prototype.slice(0, n) for n >= 0
Slice(s, n) == SubSeq(s, 1, IF Len(s) < n THEN Len(s) ELSE n)

\* "*".repeat(n)
Repeat(c, n) == [i \in 1..n |-> c]

MaskLength == 30
CustomPrefixLength == 4

\* the characters of a type name
Chars(type) ==
    CASE type = "prod" -> <<"p", "r", "o", "d">>
      [] type = "stg" -> <<"s", "t", "g">>
      [] type = "dev" -> <<"d", "e", "v">>
      [] OTHER -> <<"c", "u", "s", "t", "o", "m">>

\* mutant: one star for each character of the value
maskValueByLength(value) ==
    LET v == DefaultEmpty(value)
        type == getKeyType(value)
        prefix == IF type = "custom" THEN Slice(v, CustomPrefixLength)
                  ELSE Chars(type) \o <<"-">>
    IN prefix \o Repeat("*", Len(v))

\* maskValue(value = "")
maskValue(value) ==
    LET v == DefaultEmpty(value)
        type == getKeyType(value)
        prefix == IF type = "custom" THEN Slice(v, CustomPrefixLength)
                  ELSE Chars(type) \o <<"-">>
    IN prefix \o Repeat("*", MaskLength)

\* the arguments the utilities are called with: a head and a tail, and undefined
Heads ==
    { <<>>, <<"p", "r", "o", "d">>, <<"p", "r", "o", "d", "_">>, <<"P", "R", "O", "D", "_">>,
      <<"p", "r", "o", "d", "-">>, <<"s", "t", "g">>, <<"s", "t", "g", "_">>, <<"S", "t", "g", "_">>,
      <<"d", "e", "v">>, <<"d", "e", "v", "_">>, <<"D", "E", "V", "_">>, <<" ", "d", "e", "v", "_">>,
      <<"a", "b">>, <<"a", "b", "c", "d">>, <<"_">> }
Tails ==
    { <<>>, <<"x">>, <<"_">>, <<"p", "r", "o", "d", "_">>, <<"1", "2", "3", "4", "5", "6", "7">> }
UtilInputs == {h \o t : h \in Heads, t \in Tails} \cup {Undefined}

InitUtil ==
    /\ entry = "util"
    /\ file = MissingFile
    /\ InitFileVars
    /\ env = [url |-> "", serviceKey |-> "", anonKey |-> ""]
    /\ InitHttpVars
    /\ probe \in {[NoProbe EXCEPT !.value = v] : v \in UtilInputs}
    /\ hookApiKeys = <<>>
    /\ revealedIds = <<>>
    /\ InitHookVars

\* a caller applies getKeyType to the argument
CallGetKeyType ==
    /\ "getKeyType" \notin probe.applied
    /\ probe' = [probe EXCEPT !.type = getKeyType(probe.value),
                              !.applied = @ \cup {"getKeyType"}]
    /\ UNCHANGED <<entry, fileVars, httpVars, hookApiKeys, revealedIds, hookVars>>

\* a caller applies maskValue to the argument
CallMaskValue ==
    /\ "maskValue" \notin probe.applied
    /\ probe' = [probe EXCEPT !.masked = maskValue(probe.value),
                              !.applied = @ \cup {"maskValue"}]
    /\ UNCHANGED <<entry, fileVars, httpVars, hookApiKeys, revealedIds, hookVars>>

NextUtil == CallGetKeyType \/ CallMaskValue

SpecUtil == InitUtil /\ [][NextUtil]_vars



\* ---------------------------------------------------------- keys dashboard
\* revealedIds[id], undefined when the object has no such key
Lookup(map, id) == IF id \in DOMAIN map THEN map[id] ELSE FALSE

\* mutant: the new object holds the toggled id only
ToggledAlone(prev, id) == [x \in {id} |-> ~Lookup(prev, id)]

\* ({ ...prev, [id]: !prev[id] })
Toggled(prev, id) ==
    [x \in DOMAIN prev \cup {id} |-> IF x = id THEN ~Lookup(prev, id) ELSE prev[x]]

\* toggleReveal(id): the Show / Hide button of the row of key id
toggleReveal(id) ==
    /\ revealedIds' = Toggled(revealedIds, id)
    /\ UNCHANGED <<entry, fileVars, httpVars, probe, hookApiKeys, hookVars>>

\* setApiKeys(data): the list is replaced by a response of GET /api/keys
setApiKeys(data) ==
    /\ hookApiKeys' = data
    /\ UNCHANGED <<entry, fileVars, httpVars, probe, revealedIds, hookVars>>

\* one row of ApiKeysTable: the type badge, the read-only input and the button
TableRow(key, revealed) ==
    [id |-> key.id, type |-> getKeyType(key.value),
     shown |-> IF revealed THEN key.value ELSE maskValue(key.value),
     button |-> IF revealed THEN "Hide" ELSE "Show"]

\* ApiKeysTable({ apiKeys, revealedIds }) once loaded: one row per key
ApiKeysTable(keys, revealed) ==
    [i \in 1..Len(keys) |-> TableRow(keys[i], Lookup(revealed, keys[i].id))]

\* the lists GET /api/keys can answer: the sample records, and rows of the table
ListAnswers ==
    { <<>>, mockApiKeys, SubSeq(mockApiKeys, 1, 2),
      << ApiKey(<<"uuid", 1>>, <<"K">>, <<"p", "r", "o", "d", "_", "1", "2", "3", "4", "5", "6", "7">>, 0, 0),
         ApiKey(<<"uuid", 2>>, <<"K">>, <<"a", "b">>, 0, 0) >> }

TableIds == UNION {Ids(l) : l \in ListAnswers}

InitTable ==
    /\ entry = "table"
    /\ file = MissingFile
    /\ InitFileVars
    /\ env = [url |-> "", serviceKey |-> "", anonKey |-> ""]
    /\ InitHttpVars
    /\ InitUiVars

NextTable ==
    \/ \E data \in ListAnswers : setApiKeys(data)
    \/ \E id \in Ids(hookApiKeys) : toggleReveal(id)

SpecTable == InitTable /\ [][NextTable]_vars


\* --------------------------------------------------- creating over HTTP
\* POST /api/keys with bodies of every shape: ordinary text, nothing but
\* white space, the empty string, a missing field
CreateNames == {<<"K">>, <<" ">>, <<>>, Undefined}
CreateValues == {<<"d", "e", "v", "_", "9">>, <<" ", " ">>, <<>>, Undefined}

CreateStep ==
    \/ \E e \in EnvValues : SetEnv(e)
    \/ \E o \in Outcomes : GET(o)
    \/ \E id \in RequestIds, o \in Outcomes : DELETE(id, o)
    \/ \E n \in CreateNames, v \in CreateValues, o \in Outcomes :
          POST(TRUE, n, v, o, <<>>)

NextCreate ==
    /\ entry = "http"
    /\ CreateStep
    /\ UNCHANGED <<entry, uiVars, hookVars>>

SpecCreate == InitHttp /\ [][NextCreate]_vars


\* ------------------------------------------------------------- useApiKeys
\* setTimeout(() => setToastMessage(""), 2000), in seconds
ToastDelay == 2

\* a || b for strings
OrElse(a, b) == IF a = "" THEN b ELSE a

\* what a fetch and res.json() can bring: a response that is ok, a response
\* that is not, with or without a message in its body, or a rejection
FetchResults ==
    { [ok |-> TRUE, rejects |-> FALSE, message |-> ""],
      [ok |-> FALSE, rejects |-> FALSE, message |-> ""],
      [ok |-> FALSE, rejects |-> TRUE, message |-> "Failed to fetch"] }

\* the message the catch block hands to setError: that of the rejection, or
\* of new Error(data?.message || fallback)
ErrorOf(result, fallback) ==
    IF result.rejects THEN OrElse(result.message, "Unexpected error")
    ELSE OrElse(OrElse(result.message, fallback), "Unexpected error")

\* the lists GET /api/keys answers the hook with
RefreshLists == {SubSeq(mockApiKeys, 1, 2), SubSeq(mockApiKeys, 1, 1)}

\* the number of refreshes started so far
Started == Cardinality({i \in DOMAIN tasks : tasks[i].order > 0})

\* refresh() up to its fetch: setLoading(true); setError("")
RefreshStarted(h) == [h EXCEPT !.loading = TRUE, !.error = ""]

\* the slot of the next handleSubmit or handleDelete call
FreeSlots == {i \in 1..MaxOps : tasks[i].pc = "idle"}
NextSlot == CHOOSE i \in FreeSlots : \A j \in FreeSlots : i <= j

\* useEffect(() => { refresh(); }, [refresh]) after the first render; the
\* handlers below are reached from the page only after it
useEffectRefresh ==
    /\ tasks[0].pc = "idle"
    /\ hook' = RefreshStarted(hook)
    /\ tasks' = [tasks EXCEPT ![0] = [NoTask EXCEPT !.kind = "mount", !.pc = "refresh",
                                                    !.order = Started + 1]]
    /\ UNCHANGED hookApiKeys

\* whether the call sets a toast once its refresh has settled: handleDelete
\* always, handleSubmit if (created), the mount effect never
RaisesToast(task) ==
    \/ task.kind = "delete"
    \/ task.kind = "submit" /\ task.created

\* setToastMessage(message); setToastType(type)
Toast(h, message, type) ==
    [h EXCEPT !.toastMessage = message, !.toastType = type, !.toastAge = 0]

\* refresh() from the answer of its fetch to its finally block, and what the
\* caller does after `await refresh()`: the toast and its timer
refreshSettles(i, result, data) ==
    /\ tasks[i].pc = "refresh"
    /\ LET settled == [hook EXCEPT !.loading = FALSE,
                                   !.error = IF result.ok THEN @
                                             ELSE ErrorOf(result, "Failed to load")]
           toasts == tasks[i].kind # "mount" /\ RaisesToast(tasks[i])
       IN /\ hookApiKeys' = IF result.ok THEN data ELSE hookApiKeys
          /\ hook' = IF ~toasts THEN settled
                     ELSE IF tasks[i].kind = "delete"
                     THEN Toast(settled, "API key deleted", "delete")
                     ELSE Toast(settled, "API key created", "success")
          /\ tasks' = [tasks EXCEPT ![i].pc = "done",
                                    ![i].data = IF result.ok THEN <<data>> ELSE <<>>,
                                    ![i].due = IF toasts THEN ToastDelay ELSE -1]

\* mutant: every submission creates
SubmitMethodPost(editingId) == "POST"

\* if (editingId) PUT /api/keys/${editingId} else POST /api/keys
SubmitMethod(editingId) == IF editingId # <<>> THEN "PUT" ELSE "POST"

\* handleSubmit up to its fetch. The form is rendered only while showForm, its
\* inputs are required and its submit button is disabled while loading.
handleSubmit ==
    /\ tasks[0].pc # "idle"
    /\ hook.showForm /\ ~hook.loading
    /\ hook.form.name # <<>> /\ hook.form.value # <<>>
    /\ FreeSlots # {}
    /\ hook' = [hook EXCEPT !.error = ""]
    /\ tasks' = [tasks EXCEPT ![NextSlot] =
                    [NoTask EXCEPT !.kind = "submit", !.pc = "fetch",
                                   !.method = SubmitMethod(hook.editingId),
                                   !.id = hook.editingId, !.body = hook.form,
                                   !.created = (hook.editingId = <<>>)]]
    /\ UNCHANGED hookApiKeys

\* handleSubmit from the answer of its fetch to `await refresh()`, or to its
\* catch block
handleSubmitAnswered(i, result) ==
    /\ tasks[i].kind = "submit" /\ tasks[i].pc = "fetch"
    /\ IF result.ok
       THEN /\ hook' = RefreshStarted([hook EXCEPT !.form = EmptyForm,
                                                   !.editingId = <<>>,
                                                   !.showForm = FALSE])
            /\ tasks' = [tasks EXCEPT ![i].pc = "refresh", ![i].order = Started + 1]
       ELSE /\ hook' = [hook EXCEPT !.error =
                           ErrorOf(result, IF tasks[i].method = "PUT"
                                           THEN "Failed to update" ELSE "Failed to create")]
            /\ tasks' = [tasks EXCEPT ![i].pc = "failed"]
    /\ UNCHANGED hookApiKeys

\* handleDelete(id) up to its fetch, from the Delete button of a row; the
\* rows are rendered only while not loading
handleDelete(id) ==
    /\ tasks[0].pc # "idle"
    /\ ~hook.loading
    /\ id \in Ids(hookApiKeys)
    /\ FreeSlots # {}
    /\ hook' = [hook EXCEPT !.error = ""]
    /\ tasks' = [tasks EXCEPT ![NextSlot] =
                    [NoTask EXCEPT !.kind = "delete", !.pc = "fetch",
                                   !.method = "DELETE", !.id = <<id>>]]
    /\ UNCHANGED hookApiKeys

\* handleDelete from the answer of its fetch to `await refresh()`, or to its
\* catch block
handleDeleteAnswered(i, result) ==
    /\ tasks[i].kind = "delete" /\ tasks[i].pc = "fetch"
    /\ IF result.ok
       THEN /\ hook' = RefreshStarted(hook)
            /\ tasks' = [tasks EXCEPT ![i].pc = "refresh", ![i].order = Started + 1]
       ELSE /\ hook' = [hook EXCEPT !.error = ErrorOf(result, "Failed to delete")]
            /\ tasks' = [tasks EXCEPT ![i].pc = "failed"]
    /\ UNCHANGED hookApiKeys

\* startEdit(key), from the Edit button of a row
startEdit(key) ==
    /\ tasks[0].pc # "idle"
    /\ ~hook.loading
    /\ hook' = [hook EXCEPT !.editingId = <<key.id>>,
                            !.form = [name |-> key.name, value |-> key.value],
                            !.showForm = TRUE]
    /\ UNCHANGED <<hookApiKeys, tasks>>

\* cancelEdit, from the Cancel button, which the form shows while editingId
\* and enables while not loading
cancelEdit ==
    /\ tasks[0].pc # "idle"
    /\ hook.showForm /\ hook.editingId # <<>> /\ ~hook.loading
    /\ hook' = [hook EXCEPT !.editingId = <<>>, !.form = EmptyForm, !.showForm = FALSE]
    /\ UNCHANGED <<hookApiKeys, tasks>>

\* handleToggleForm of the dashboard page, from the "+ Add Key" / "Close" button
handleToggleForm ==
    /\ tasks[0].pc # "idle"
    /\ hook' = [hook EXCEPT !.showForm = ~hook.showForm]
    /\ UNCHANGED <<hookApiKeys, tasks>>

\* setForm from the inputs of the form, which is rendered only while showForm
setForm(f) ==
    /\ tasks[0].pc # "idle"
    /\ hook.showForm
    /\ hook.form # f
    /\ hook' = [hook EXCEPT !.form = f]
    /\ UNCHANGED <<hookApiKeys, tasks>>

\* the callback of a toast timer: () => setToastMessage("")
toastTimeout(i) ==
    /\ tasks[i].due = 0
    /\ hook' = [hook EXCEPT !.toastMessage = ""]
    /\ tasks' = [tasks EXCEPT ![i].due = -1]
    /\ UNCHANGED hookApiKeys

\* a second passes: a timer that is due runs first, the others come a second
\* closer, the toast on display ages
Elapse ==
    /\ \A i \in DOMAIN tasks : tasks[i].due # 0
    /\ tasks' = [i \in DOMAIN tasks |->
                    IF tasks[i].due > 0 THEN [tasks[i] EXCEPT !.due = @ - 1] ELSE tasks[i]]
    /\ hook' = IF hook.toastMessage # "" /\ hook.toastAge < ToastDelay
               THEN [hook EXCEPT !.toastAge = @ + 1] ELSE hook
    /\ UNCHANGED hookApiKeys

InitHook ==
    /\ entry = "hook"
    /\ file = MissingFile
    /\ InitFileVars
    /\ env = [url |-> "", serviceKey |-> "", anonKey |-> ""]
    /\ InitHttpVars
    /\ InitUiVars

\* the dashboard page: the mount effect, the buttons and inputs of the page,
\* the answers of the server, the timers and the passing of time
NextHook ==
    /\ \/ useEffectRefresh
       \/ \E i \in DOMAIN tasks, r \in FetchResults, data \in RefreshLists :
             refreshSettles(i, r, data)
       \/ handleSubmit
       \/ \E i \in DOMAIN tasks, r \in FetchResults : handleSubmitAnswered(i, r)
       \/ \E id \in Ids(hookApiKeys) : handleDelete(id)
       \/ \E i \in DOMAIN tasks, r \in FetchResults : handleDeleteAnswered(i, r)
       \/ \E k \in 1..Len(hookApiKeys) : startEdit(hookApiKeys[k])
       \/ cancelEdit
       \/ handleToggleForm
       \/ setForm([name |-> <<"K">>, value |-> <<"d", "e", "v", "_", "9">>])
       \/ \E i \in DOMAIN tasks : toastTimeout(i)
       \/ Elapse
    /\ UNCHANGED <<entry, fileVars, httpVars, probe, revealedIds>>

SpecHook == InitHook /\ [][NextHook]_vars


\* ------------------------------------------------------------------ claims
Records(keys) == {keys[i] : i \in 1..Len(keys)}
Done(p, op) == call[p].pc = "done" /\ call[p].op = op

\* C1 (as claimed): whenever POST /api/keys answers 201, the record it returns is
\* stored in the active backend: in the remote table when a client is
\* configured, in the data file when none is.
C1_CreateDurableInActiveBackend ==
    (resp.handler = "POST" /\ resp.status = 201) =>
        IF resp.supabase # Null
        THEN \E i \in 1..Len(table) : FromRow(table[i]) = resp.key
        ELSE file.kind = "array" /\ resp.key \in Records(file.keys)

\* C1 (amended): a 201 from POST /api/keys given while a client is configured
\* returns the record, with the request's name and full value, that the remote
\* table now holds under the returned id (what get-by-id and list read); a 201
\* given while no client is configured stores nothing: the table and the data
\* file hold no record of the returned id, and the returned value is the first
\* 10 characters of the request's value followed by "...".
C1_CreateDurableWhenConfigured ==
    (resp.handler = "POST" /\ resp.status = 201) =>
        IF resp.supabase # Null
        THEN /\ MaybeSingle(RowsWith(table, resp.key.id)).data # Null
             /\ FromRow(MaybeSingle(RowsWith(table, resp.key.id)).data) = resp.key
             /\ resp.key.name = resp.name
             /\ resp.key.value = resp.value
        ELSE /\ RowsWith(table, resp.key.id) = <<>>
             /\ file = MissingFile
             /\ resp.key.name = resp.name
             /\ resp.key.value = Substring(resp.value, 10) \o <<".", ".", ".">>
             /\ resp.key.value # resp.value

\* C1 witness: a 201 answered from the remote table
C1_Witness ==
    /\ resp.handler = "POST" /\ resp.status = 201 /\ resp.supabase # Null
    /\ Len(resp.value) > 10

\* C2: a getApiKeyById of the id a createApiKey returned, with no write to the
\* file in between, returns a record with the name and the value that were
\* passed to createApiKey and with createdAt equal to updatedAt.
C2_CreateThenGetRoundTrip ==
    \A p \in Procs :
        ( /\ Done(p, "getApiKeyById")
          /\ lastMutation # Null
          /\ lastMutation.op = "createApiKey"
          /\ call[p].apiKeyId = lastMutation.id )
        => /\ call[p].ret # Null
           /\ call[p].ret.id = lastMutation.id
           /\ call[p].ret.name = lastMutation.name
           /\ call[p].ret.value = lastMutation.value
           /\ call[p].ret.createdAt = call[p].ret.updatedAt

\* C2 witness: such a get has returned the created record
C2_Witness ==
    \E p \in Procs :
        /\ Done(p, "getApiKeyById")
        /\ lastMutation # Null
        /\ lastMutation.op = "createApiKey"
        /\ call[p].apiKeyId = lastMutation.id
        /\ call[p].ret # Null
        /\ lastMutation.name # <<>>

\* C3 (as claimed): when getSupabaseServerClient returns null, the handler is
\* served by the file store: it does not fail, and the records it answers with
\* are records of the data file.
C3_UnconfiguredServedByFileStore ==
    (resp.handler # "none" /\ resp.asked /\ resp.supabase = Null) =>
        /\ resp.status < 500
        /\ file.kind = "array"
        /\ \A i \in 1..Len(resp.keys) : resp.keys[i] \in Records(file.keys)
        /\ resp.key # Null => resp.key \in Records(file.keys)

\* C3 (amended): when getSupabaseServerClient returns null no handler uses the
\* file store: the list answers 200 with the three fixed sample records,
\* create answers 201 with a record that is stored nowhere, and get by id,
\* update and delete answer 503 "API not configured"; the data file is never
\* created and the remote table is not changed.
C3_UnconfiguredAnswers ==
    (resp.handler # "none" /\ resp.asked /\ resp.supabase = Null) =>
        /\ file = MissingFile /\ calls = 0
        /\ resp.query = "none"
        /\ resp.handler = "LIST" =>
              /\ resp.status = 200
              /\ Len(resp.keys) = 3
              /\ [i \in 1..3 |-> resp.keys[i].id] = << <<"1">>, <<"2">>, <<"3">> >>
              /\ resp.keys = mockApiKeys
        /\ resp.handler = "POST" =>
              /\ resp.status = 201
              /\ resp.key # Null
              /\ RowsWith(table, resp.key.id) = <<>>
        /\ resp.handler \in {"GET", "PUT", "DELETE"} =>
              /\ resp.status = 503
              /\ resp.message = "API not configured"
              /\ resp.key = Null /\ ~resp.success

\* C3 witness: an update request answered without a client
C3_Witness ==
    /\ resp.handler = "PUT" /\ resp.asked /\ resp.supabase = Null
    /\ resp.status = 503


\* the call of caller p has returned after writing its change
Succeeded(p) == call[p].pc = "done" /\ "write" \in call[p].wrote

Mutators == {"createApiKey", "updateApiKey", "deleteApiKey"}

\* the record a completed mutating call is about
Target(p) == IF call[p].op = "createApiKey" THEN call[p].ret.id ELSE call[p].apiKeyId

\* the data file shows the change of the completed mutating call of p
Reflected(p) ==
    IF call[p].op = "deleteApiKey" THEN Target(p) \notin Ids(file.keys)
    ELSE call[p].ret \in Records(file.keys)

\* C4: the write-all step of a mutating call replaces the whole document by the
\* array the call read earlier plus its own change, so when two overlapping
\* calls have both returned success the file is exactly what one of them
\* wrote; the witness is an interleaving in which the other call's change,
\* to a different record, is missing from the file.
C4_LastWriteAllWins ==
    (\A p \in Procs : Succeeded(p)) =>
        \E p \in Procs : file = JsonFile(call[p].buf)

\* C4 witness: both calls read the same array, both returned success, and the
\* file reflects the change of one but not of the other
C4_LostUpdate ==
    \E p, q \in Procs :
        /\ p # q
        /\ Succeeded(p) /\ Succeeded(q)
        /\ call[p].op \in Mutators /\ call[q].op \in Mutators
        /\ call[p].all = call[q].all
        /\ Target(p) # Target(q)
        /\ ~Reflected(p)
        /\ Reflected(q)

\* C5, file store, on return: the record returned by an updateApiKey that found
\* its id has the supplied strings in place of name and value, the prior
\* value of each omitted field, the prior id and createdAt, an updatedAt not
\* before the prior one, and is the record now stored under that id.
C5_StoreUpdateResult ==
    \A p \in Procs :
        (Done(p, "updateApiKey") /\ call[p].ret # Null) =>
            LET e == call[p].existing
                r == call[p].ret
            IN /\ e = Find(call[p].all, call[p].apiKeyId)
               /\ r.name = (IF call[p].name = Undefined THEN e.name ELSE call[p].name)
               /\ r.value = (IF call[p].value = Undefined THEN e.value ELSE call[p].value)
               /\ r.id = e.id /\ r.createdAt = e.createdAt
               /\ r.updatedAt >= e.updatedAt
               /\ Find(file.keys, call[p].apiKeyId) = r

\* C5, file store, at the update: updatedAt is the clock's value, whatever the
\* arguments
C5_StoreUpdateStamp ==
    \A p \in Procs :
        (updateApiKey(p) /\ call'[p].ret # Null) => call'[p].ret.updatedAt = now

\* C5, PUT /api/keys/{id} answered 200: the row is changed in the supplied
\* string fields only, updated_at becomes the clock's value, not before the
\* prior updatedAt, and the answer is the changed row.
C5_PutUpdate ==
    \A id \in RequestIds, n \in BodyNames, v \in BodyValues :
        (PUT(id, TRUE, n, v, "ok") /\ resp'.status = 200) =>
            LET i == RowIndex(table, id)
            IN /\ i # 0
               /\ Len(table') = Len(table)
               /\ \A j \in 1..Len(table) : j # i => table'[j] = table[j]
               /\ table'[i].id = id
               /\ table'[i].name = (IF n = Undefined THEN table[i].name ELSE n)
               /\ table'[i].value = (IF v = Undefined THEN table[i].value ELSE v)
               /\ table'[i].created_at = table[i].created_at
               /\ table'[i].updated_at = <<now>>
               /\ now >= Coalesce(table[i].updated_at, table[i].created_at)
               /\ resp'.key = FromRow(table'[i])

\* C5: update of an existing record replaces only the fields supplied as
\* strings, keeps every omitted field, and always sets updatedAt to the
\* current time, which is not before the prior updatedAt; in the file store
\* (updateApiKey) and in the remote table (PUT).
C5_UpdateReplacesSuppliedFields ==
    /\ []C5_StoreUpdateResult
    /\ [][C5_StoreUpdateStamp]_vars
    /\ [][C5_PutUpdate]_vars

\* C5 witness: an update with name and value both omitted has returned a
\* record whose updatedAt moved forward
C5_Witness ==
    \E p \in Procs :
        /\ Done(p, "updateApiKey") /\ call[p].ret # Null
        /\ call[p].name = Undefined /\ call[p].value = Undefined
        /\ call[p].ret.updatedAt > call[p].existing.updatedAt

\* C6, ids: no two stored records have the same id
C6_DistinctIds ==
    \A i, j \in 1..Len(file.keys) : i # j => file.keys[i].id # file.keys[j].id

\* C6, step: a record that is stored before and after a step keeps its
\* createdAt, and the write of an updateApiKey leaves the ids as it read them
C6_StepKeepsIdAndCreatedAt ==
    /\ \A i \in 1..Len(file.keys), j \in 1..Len(file'.keys) :
          file.keys[i].id = file'.keys[j].id =>
              file.keys[i].createdAt = file'.keys[j].createdAt
    /\ \A p \in Procs :
          (call[p].op = "updateApiKey" /\ writeAllApiKeys(p) /\ call[p].phase = "write") =>
              /\ Len(file'.keys) = Len(call[p].all)
              /\ \A i \in 1..Len(call[p].all) : file'.keys[i].id = call[p].all[i].id

\* C6: after any sequence of create, update and delete calls the stored
\* records have pairwise distinct ids, and every stored record keeps the id
\* and the createdAt it was created with.
C6_IdAndCreatedAtImmutable ==
    /\ []C6_DistinctIds
    /\ [][C6_StepKeepsIdAndCreatedAt]_vars

\* C6 witness: a created record (beside the seeds) is stored and an update has
\* changed a record after its creation time
C6_Witness ==
    \E p \in Procs :
        /\ Done(p, "updateApiKey") /\ call[p].ret # Null
        /\ call[p].ret.updatedAt > call[p].ret.createdAt
        /\ call[p].ret \in Records(file.keys)
        /\ Len(file.keys) >= 4

\* a non-empty array, the only content readAllApiKeys returns as it is
Usable(f) == f.kind = "array" /\ Len(f.keys) > 0

\* C7, the part both versions share: deleteApiKey returns false exactly when
\* the id is not among the records it read; when it returns true the file
\* holds the records it read except that one, each unchanged, and the id is
\* absent; a getApiKeyById of that id that follows returns null.
C7_DeleteRemovesExactly ==
    /\ \A p \in Procs :
          Done(p, "deleteApiKey") =>
              /\ call[p].ret \in {True, False}
              /\ (call[p].ret = False) <=> (call[p].apiKeyId \notin Ids(call[p].all))
              /\ call[p].ret = True =>
                    /\ file.kind = "array"
                    /\ Len(file.keys) = Len(call[p].all) - 1
                    /\ Records(file.keys) = {k \in Records(call[p].all) : k.id # call[p].apiKeyId}
                    /\ Find(file.keys, call[p].apiKeyId) = Null
    /\ \A p \in Procs :
          ( /\ Done(p, "getApiKeyById")
            /\ lastMutation # Null
            /\ lastMutation.op = "deleteApiKey"
            /\ call[p].apiKeyId = lastMutation.id ) => call[p].ret = Null

\* C7 (as claimed): in addition, a deleteApiKey that returns false has performed
\* no write and has left the file as it was when the call started.
C7_DeleteAbsentNeverWrites ==
    /\ C7_DeleteRemovesExactly
    /\ \A p \in Procs :
          (Done(p, "deleteApiKey") /\ call[p].ret = False) =>
              /\ call[p].wrote = {}
              /\ file = call[p].before

\* C7 (amended): a deleteApiKey that returns false has not written its own
\* array and leaves the collection as it read it; it has performed no write at
\* all and left the file untouched when the file held a non-empty array at the
\* start of the call, and otherwise its only writes are those of the read's
\* auto-seeding.
C7_DeleteAbsentWritesOnlySeeds ==
    /\ C7_DeleteRemovesExactly
    /\ \A p \in Procs :
          (Done(p, "deleteApiKey") /\ call[p].ret = False) =>
              /\ "write" \notin call[p].wrote
              /\ file = JsonFile(call[p].all)
              /\ IF Usable(call[p].before)
                 THEN call[p].wrote = {} /\ file = call[p].before
                 ELSE call[p].wrote # {} /\ call[p].wrote \subseteq {"ensure", "seed"}

\* C7 witness: a record was deleted and the get of its id that followed
\* returned null
C7_Witness ==
    \E p \in Procs :
        /\ Done(p, "getApiKeyById")
        /\ lastMutation # Null
        /\ lastMutation.op = "deleteApiKey"
        /\ call[p].apiKeyId = lastMutation.id
        /\ call[p].ret = Null
        /\ Len(file.keys) >= 2

\* C8 (as claimed): get and update of an id that is not there report absence:
\* the file store returns null and leaves the collection as it read it, and
\* GET and PUT /api/keys/{id}, given a client whose query did not fail, answer
\* 404 "Not found" and leave the table unchanged.
C8_AbsentIsNotFound ==
    /\ \A p \in Procs :
          ( /\ call[p].pc = "done"
            /\ call[p].op \in {"getApiKeyById", "updateApiKey"}
            /\ call[p].apiKeyId \notin Ids(call[p].all) )
          => call[p].ret = Null /\ file = JsonFile(call[p].all)
    /\ ( /\ resp.handler \in {"GET", "PUT"}
         /\ resp.supabase # Null
         /\ resp.query = "ok"
         /\ RowIndex(table, resp.id) = 0 )
       => resp.status = 404 /\ resp.message = "Not found"

\* C9: GET /api/keys always answers 200 with a sequence of records: the rows
\* of the table when the remote query succeeded, the fixed sample records
\* when there is no client, when the query returned an error and when an
\* exception was thrown.
C9_ListNeverFails ==
    resp.handler = "LIST" =>
        /\ resp.status = 200
        /\ resp.message = "" /\ resp.key = Null
        /\ IF resp.supabase # Null /\ resp.query = "ok"
           THEN /\ Len(resp.keys) = Len(table)
                /\ Records(resp.keys) = {FromRow(table[i]) : i \in 1..Len(table)}
           ELSE /\ Len(resp.keys) = 3
                /\ resp.keys = mockApiKeys

\* C9 witness: the list answered while the remote query returned an error
C9_Witness ==
    /\ resp.handler = "LIST" /\ resp.supabase # Null /\ resp.query = "error"
    /\ resp.status = 200 /\ table # <<>>

\* C10: with a client configured, a create, update or delete whose remote
\* query returns an error answers 500 with the error's message, and one whose
\* query throws answers 500; neither answers a record, a list or success.
C10_WriteFailuresAreErrors ==
    ( /\ resp.handler \in {"POST", "PUT", "DELETE"}
      /\ resp.supabase # Null
      /\ resp.query \in {"error", "throw"} )
    => /\ resp.status = 500
       /\ resp.query = "error" => resp.message = RemoteErrorMessage
       /\ resp.message # ""
       /\ resp.key = Null /\ resp.keys = <<>> /\ ~resp.success

\* C10 witness: an update whose remote query returned an error
C10_Witness ==
    /\ resp.handler = "PUT" /\ resp.supabase # Null /\ resp.query = "error"
    /\ resp.status = 500 /\ table # <<>>


\* the records a read of the document f would find stored
Stored(f) == IF f.kind = "array" THEN f.keys ELSE <<>>

\* C11 (as claimed): when the write step of createApiKey, updateApiKey or
\* deleteApiKey fails, the call rejects with the error and the stored
\* collection is exactly what it was when the call started.
C11_FailedWriteLeavesPriorState ==
    \A p \in Procs :
        call[p].pc = "threw" =>
            /\ call[p].op \in Mutators
            /\ call[p].ret = WriteError
            /\ Stored(file) = Stored(call[p].before)

\* C12: when the data file is missing, unparsable, not an array or an empty
\* array at the start of a call, the call's read writes to the file and returns
\* exactly three records, which are then the stored ones; their values
\* classify as prod, stg and dev in that order and each has createdAt equal to
\* updatedAt.
C12_AutoSeed ==
    \A p \in Procs :
        (call[p].pc = "resume" /\ ~Usable(call[p].before)) =>
            LET all == call[p].all
            IN /\ call[p].wrote # {}
               /\ call[p].wrote \subseteq {"ensure", "seed"}
               /\ file = JsonFile(all)
               /\ Len(all) = 3
               /\ <<getKeyType(all[1].value), getKeyType(all[2].value),
                    getKeyType(all[3].value)>> = <<"prod", "stg", "dev">>
               /\ \A i \in 1..3 : all[i].createdAt = all[i].updatedAt
               /\ Cardinality(Ids(all)) = 3

\* C12 witness: a read that found a document that is not an array has
\* returned three seed records
C12_Witness ==
    \E p \in Procs :
        /\ call[p].pc = "resume"
        /\ call[p].before.kind = "notArray"
        /\ Len(call[p].all) = 3
        /\ "seed" \in call[p].wrote

\* caller p generates seed records in this step
GeneratesSeeds(p) ==
    \/ ensureDataFileExists(p) /\ call'[p].pc = "ensureWrite"
    \/ readAllApiKeys(p) /\ call'[p].phase = "seed"

\* C13 (as claimed): seed records are generated on first access only. Ids come
\* from one source and the first access always takes three of them for the
\* seeds, so nextId = 1 exactly as long as the store has not been initialised:
\* every step that generates seeds is taken with nextId = 1.
C13_SeedsGeneratedOnce ==
    [][\A p \in Procs : GeneratesSeeds(p) => nextId = 1]_vars

\* a create argument that is empty or absent
Blank(v) == v = Undefined \/ v = <<>>

\* C14, POST /api/keys: a body whose name or value is blank is answered 400 with
\* no record
C14_PostRejectsBlank ==
    ( /\ resp.handler = "POST" /\ resp.bodyOk
      /\ Blank(resp.name) \/ Blank(resp.value) )
    => /\ resp.status = 400
       /\ resp.key = Null
       /\ resp.supabase = Null /\ resp.query = "none"

\* C14, POST /api/keys: such a request leaves the table as it was
C14_PostStoresNothing ==
    \A n \in BodyNames, v \in BodyValues :
        (POST(TRUE, n, v, "ok", <<>>) /\ (Blank(n) \/ Blank(v))) => table' = table

\* C14, file store: a createApiKey whose name or value is blank neither returns
\* a record nor writes one
C14_StoreRejectsBlank ==
    \A p \in Procs :
        ( /\ call[p].op = "createApiKey"
          /\ Blank(call[p].name) \/ Blank(call[p].value) )
        => /\ call[p].pc # "done"
           /\ "write" \notin call[p].wrote

\* C14 (as claimed): create with an empty or absent name, or an empty or absent
\* value, fails with a validation error and stores nothing, through POST
\* /api/keys (status 400) and through the file store's createApiKey.
C14_CreateValidates ==
    /\ []C14_PostRejectsBlank
    /\ [][C14_PostStoresNothing]_vars
    /\ []C14_StoreRejectsBlank

\* the endpoint and a credential are both set in the environment e
Present(e) == e.url # "" /\ (e.serviceKey # "" \/ e.anonKey # "")

\* a step in which a handler has called getSupabaseServerClient: handlers
\* leave the environment and the clock alone, and resp' is their exchange
Asked == entry = "http" /\ env' = env /\ now' = now /\ resp'.asked

\* C15, the parts both versions share: a cached client is returned as it is,
\* whatever the environment, and stays cached; with nothing cached and the
\* endpoint or the credential absent the call returns null and caches
\* nothing.
C15_ReuseAndAbsent ==
    /\ cached # Null => cached' = cached
    /\ Asked =>
          /\ resp'.was = cached
          /\ IF cached # Null
             THEN resp'.supabase = cached
             ELSE ~Present(env) => (resp'.supabase = Null /\ cached' = Null)

\* C15 (as claimed): in addition, a call made with nothing cached while the
\* endpoint and a credential are both present returns a client, which is
\* cached.
C15_PresentGivesClient ==
    /\ [][C15_ReuseAndAbsent]_vars
    /\ [][(Asked /\ cached = Null /\ Present(env)) =>
             (resp'.supabase # Null /\ cached' = resp'.supabase)]_vars

\* C15 (amended): a call made with nothing cached while the endpoint and a
\* credential are both present returns a client built from them (the service
\* key when set, else the anon key), which is cached, unless createClient
\* throws; then it returns null and caches nothing, like a call made while
\* they are absent.
C15_PresentGivesClientUnlessThrows ==
    /\ [][C15_ReuseAndAbsent]_vars
    /\ [][(Asked /\ cached = Null /\ Present(env)) =>
             IF CreateClientThrows(env.url)
             THEN resp'.supabase = Null /\ cached' = Null
             ELSE /\ resp'.supabase # Null /\ cached' = resp'.supabase
                  /\ resp'.supabase.url = env.url
                  /\ resp'.supabase.key =
                        (IF env.serviceKey # "" THEN env.serviceKey ELSE env.anonKey)]_vars

\* C15 witness: a handler found a client cached and was given that client,
\* which was built with the anon key before the service key was set
C15_Witness ==
    /\ resp.asked /\ resp.was # Null /\ resp.supabase = resp.was
    /\ cached = resp.was
    /\ resp.was.key = "ak" /\ env.serviceKey = "sk"

\* C16: a GET /api/keys handled without a client answers 200 with exactly three
\* records, named OpenAI API Key, Anthropic API Key and Google AI API Key in
\* that order, with ids "1", "2", "3" and the fixed values, whatever requests
\* were handled before it; and no request handled without a client changes
\* the table.
C16_UnconfiguredListIsFixed ==
    /\ [](( resp.handler = "LIST" /\ resp.supabase = Null ) =>
            /\ resp.status = 200
            /\ Len(resp.keys) = 3
            /\ [i \in 1..3 |-> resp.keys[i].name] =
                  << <<"O", "p", "e", "n", "A", "I", " ", "A", "P", "I", " ", "K", "e", "y">>,
                     <<"A", "n", "t", "h", "r", "o", "p", "i", "c", " ", "A", "P", "I", " ", "K", "e", "y">>,
                     <<"G", "o", "o", "g", "l", "e", " ", "A", "I", " ", "A", "P", "I", " ", "K", "e", "y">> >>
            /\ [i \in 1..3 |-> resp.keys[i].id] = << <<"1">>, <<"2">>, <<"3">> >>
            /\ [i \in 1..3 |-> resp.keys[i].value] =
                  << <<"s", "k", "-", ".", ".", ".">>,
                     <<"s", "k", "-", "a", "n", "t", "-", ".", ".", ".">>,
                     <<"A", "I", "z", "a", ".", ".", ".">> >>
            /\ \A i \in 1..3 : resp.keys[i].createdAt = resp.keys[i].updatedAt)
    /\ [][(entry = "http" /\ env' = env /\ now' = now /\ resp'.supabase = Null)
             => table' = table]_vars

\* C16 witness: the list was answered without a client right after a create
\* that was answered 201 without a client
C16_Witness ==
    /\ resp.handler = "LIST" /\ resp.supabase = Null /\ resp.asked
    /\ resp.afterCreate
    /\ cached = Null
    /\ Len(resp.keys) = 3

\* the argument as the utilities see it: absent input is the empty string
Seen(value) == IF value = Undefined THEN <<>> ELSE value

\* the first n characters of s are exactly the characters of lit
Begins(s, lit) == Len(s) >= Len(lit) /\ \A i \in 1..Len(lit) : s[i] = lit[i]

\* C17: getKeyType returns one of prod, stg, dev, custom for every string and
\* for absent input: prod iff the value begins with the five characters
\* prod_, otherwise stg iff it begins with stg_, otherwise dev iff it begins
\* with dev_, otherwise custom; the comparison is by exact character, so
\* other case, a missing underscore and the empty string give custom.
C17_GetKeyTypePrefixExact ==
    "getKeyType" \in probe.applied =>
        LET v == Seen(probe.value)
        IN /\ probe.type \in {"prod", "stg", "dev", "custom"}
           /\ probe.type = "prod" <=> Begins(v, <<"p", "r", "o", "d", "_">>)
           /\ probe.type = "stg" <=> Begins(v, <<"s", "t", "g", "_">>)
           /\ probe.type = "dev" <=> Begins(v, <<"d", "e", "v", "_">>)
           /\ v \in { <<>>, <<"p", "r", "o", "d", "x">>, <<"P", "R", "O", "D", "_", "x">>,
                      <<"p", "r", "o", "d">>, <<"s", "t", "g">>, <<"d", "e", "v">> }
                 => probe.type = "custom"

\* C17 witness: getKeyType was applied to prodx and returned custom
C17_Witness ==
    /\ "getKeyType" \in probe.applied
    /\ probe.value = <<"p", "r", "o", "d", "x">>
    /\ probe.type = "custom"

C19_ValidOnlyIfStored ==
    (resp.handler = "VALIDATE" /\ resp.status = 200) =>
        /\ resp.value # Undefined
        /\ \E i \in 1..Len(table) : table[i].value = Trim(resp.value)

\* the revealed flag of a key id: !!revealedIds[id]
Flag(id) == id \in DOMAIN revealedIds /\ revealedIds[id]

\* C20, rendering: each row of the keys table shows the key's value when its
\* flag is set and maskValue of the value otherwise
C20_ShownMaskedUnlessRevealed ==
    LET rows == ApiKeysTable(hookApiKeys, revealedIds)
    IN /\ Len(rows) = Len(hookApiKeys)
       /\ \A i \in 1..Len(rows) :
             /\ rows[i].id = hookApiKeys[i].id
             /\ rows[i].shown = IF Flag(hookApiKeys[i].id) THEN hookApiKeys[i].value
                                ELSE maskValue(hookApiKeys[i].value)

\* C20, toggle: toggleReveal(id) flips the flag of id and leaves every other
\* flag and the list as they were
C20_ToggleFlipsOne ==
    \A id \in TableIds :
        toggleReveal(id) =>
            /\ Flag(id)' = ~Flag(id)
            /\ \A other \in TableIds \ {id} : Flag(other)' = Flag(other)
            /\ hookApiKeys' = hookApiKeys

\* C20: keys are masked by default and revealed only on request: initially no
\* flag is set, the table shows maskValue(value) for every key whose flag is
\* not set, and toggleReveal(id) flips the flag of that id only.
C20_MaskedUnlessRevealed ==
    /\ \A id \in TableIds : ~Flag(id)
    /\ []C20_ShownMaskedUnlessRevealed
    /\ [][C20_ToggleFlipsOne]_vars
    /\ [][(\A id \in TableIds : Flag(id)' = Flag(id)) \/ \E id \in TableIds : toggleReveal(id)]_vars

\* C20 witness: of two keys on the table one has been revealed and shows its
\* value, the other has been revealed and hidden again and shows its mask
C20_Witness ==
    LET rows == ApiKeysTable(hookApiKeys, revealedIds)
    IN \E i, j \in 1..Len(rows) :
          /\ i # j
          /\ Flag(rows[i].id) /\ rows[i].shown = hookApiKeys[i].value
          /\ rows[j].id \in DOMAIN revealedIds /\ ~Flag(rows[j].id)
          /\ rows[j].shown # hookApiKeys[j].value
          /\ Len(rows[j].shown) >= 30

\* ---- C22
\* the exchange read rows of the remote table: a client was there and the
\* query answered
RemoteRead == resp.supabase # Null /\ resp.query = "ok"

\* the timestamps a record shows for a row
ShowsRow(key, r) ==
    /\ key.id = r.id
    /\ key.createdAt = r.created_at
    /\ key.updatedAt = IF r.updated_at # <<>> THEN r.updated_at[1] ELSE r.created_at

\* C22: every record read from the remote table (the list, a record fetched
\* by id, the record a create or an update answers with) shows the row's
\* created_at as createdAt, and as updatedAt the row's updated_at when the
\* row has one and its created_at otherwise
C22_TimestampsFromRow ==
    RemoteRead =>
        /\ (resp.handler \in {"GET", "PUT", "POST"} /\ resp.key # Null) =>
               \E i \in 1..Len(table) : ShowsRow(resp.key, table[i])
        /\ (resp.handler = "LIST" /\ resp.status = 200) =>
               /\ Len(resp.keys) = Len(table)
               /\ \A i \in 1..Len(resp.keys) :
                      \E j \in 1..Len(table) : ShowsRow(resp.keys[i], table[j])

\* the list shows a row that was updated after it was created
C22_Witness ==
    /\ RemoteRead
    /\ resp.handler = "LIST"
    /\ resp.status = 200
    /\ Len(resp.keys) = 1
    /\ table[1].updated_at # <<>>
    /\ table[1].updated_at[1] # table[1].created_at
    /\ resp.keys[1].updatedAt # resp.keys[1].createdAt

\* ---- C23
\* a string that holds characters, and nothing but spaces
WhiteSpaceOnly(v) == v # Undefined /\ v # <<>> /\ \A i \in 1..Len(v) : v[i] = " "

\* a body whose name and value are both strings of at least one character
HoldsBoth(r) == r.bodyOk /\ ~Blank(r.name) /\ ~Blank(r.value)

\* C23: the validation of POST /api/keys is the falsy test alone, without
\* trimming: a body whose name and value each hold at least one character,
\* white space included, is never answered 400; with a client and an
\* answering query it is answered 201 and stored as sent, and without a
\* client it is answered 201 under the name as sent
C23_WhiteSpacePassesCreate ==
    (resp.handler = "POST" /\ HoldsBoth(resp)) =>
        /\ resp.status # 400
        /\ RemoteRead =>
              /\ resp.status = 201
              /\ resp.key.name = resp.name /\ resp.key.value = resp.value
              /\ \E i \in 1..Len(table) :
                     /\ table[i].id = resp.key.id
                     /\ table[i].name = resp.name
                     /\ table[i].value = resp.value
        /\ resp.supabase = Null =>
              /\ resp.status = 201
              /\ resp.key.name = resp.name

\* a name and a value of nothing but spaces were stored as a row
C23_Witness ==
    /\ resp.handler = "POST"
    /\ WhiteSpaceOnly(resp.name) /\ WhiteSpaceOnly(resp.value)
    /\ resp.status = 201
    /\ RemoteRead
    /\ \E i \in 1..Len(table) : WhiteSpaceOnly(table[i].name) /\ WhiteSpaceOnly(table[i].value)

\* ---- C29
\* C29: no row of the remote table ever holds the empty string as its name or
\* as its value, whatever POST /api/keys and PUT /api/keys/{id} were sent
C29_StoredFieldsNonEmpty ==
    \A i \in 1..Len(table) : table[i].name # <<>> /\ table[i].value # <<>>

\* ---- C26
\* C26: getAllApiKeys never returns the empty list: whatever creates, updates
\* and deletes came first, the deletion of every record included, a
\* getAllApiKeys that returns hands out at least one record
C26_ListNeverEmpty ==
    \A p \in Procs :
        Done(p, "getAllApiKeys") => Len(call[p].ret.list) >= 1

\* the last record had been deleted when getAllApiKeys was called
C26_Witness ==
    \E p \in Procs :
        /\ Done(p, "getAllApiKeys")
        /\ lastMutation # Null
        /\ lastMutation.op = "deleteApiKey"
        /\ call[p].before = JsonFile(<<>>)
        /\ Len(call[p].ret.list) >= 1

\* ---- C27
\* the file is missing or holds the empty array
MissingOrEmpty(f) == f = MissingFile \/ f = JsonFile(<<>>)

\* the records a completed getAllApiKeys or createApiKey handed to its caller
Handed(p) ==
    IF call[p].op = "getAllApiKeys" THEN Records(call[p].ret.list)
    ELSE {call[p].ret}

\* every caller called getAllApiKeys or createApiKey while the file was
\* missing or empty, and every call has returned
AllReturned ==
    \A p \in Procs :
        /\ call[p].pc = "done"
        /\ call[p].op \in {"getAllApiKeys", "createApiKey"}
        /\ MissingOrEmpty(call[p].before)

\* C27: when the overlapping calls of getAllApiKeys and createApiKey that
\* started on a missing or empty data file have all returned, every record
\* one of them returned is in the data file
C27_HandedRecordsAreStored ==
    AllReturned =>
        \A p \in Procs : Handed(p) \subseteq Records(Stored(file))

\* ---- C21
\* C21: a toast is never taken down before it has been on display for the two
\* seconds of its timer, also when several creates and deletes succeed one
\* shortly after the other
C21_ToastStaysTwoSeconds ==
    [][(hook.toastMessage # "" /\ hook'.toastMessage = "") =>
           hook.toastAge >= ToastDelay]_vars

\* ---- C25
\* C25: whenever the form is hidden no record is being edited: showForm false
\* implies editingId null, whatever startEdit, cancelEdit, the "+ Add Key" /
\* "Close" button, submissions and deletions came before
C25_HiddenFormIsNotEditing == ~hook.showForm => hook.editingId = <<>>

\* ---- C28
\* the refreshes in flight, and the call whose refresh was started last
InFlightRefreshes == {i \in DOMAIN tasks : tasks[i].pc = "refresh"}
LastStarted == CHOOSE i \in DOMAIN tasks : tasks[i].order = Started

\* C28: loading is true whenever a refresh is in flight, overlapping
\* refreshes included; and once every refresh that was started has settled,
\* loading is false and apiKeys is the list the refresh started last was
\* answered with
C28_LoadingCoversRefreshes ==
    /\ InFlightRefreshes # {} => hook.loading
    /\ (InFlightRefreshes = {} /\ Started > 0) =>
          /\ ~hook.loading
          /\ tasks[LastStarted].data # <<>> => hookApiKeys = tasks[LastStarted].data[1]

\* ---- C24
\* call i is a handleSubmit that goes from one position to another in this step
SubmitMoves(i, from, to) ==
    /\ tasks[i].pc = from
    /\ tasks'[i].pc = to
    /\ tasks'[i].kind = "submit"

\* C24: handleSubmit sends PUT /api/keys/{editingId} with the form when
\* editingId is set and POST /api/keys with the form otherwise. When the
\* answer is ok it empties the form, sets editingId to null, hides the form
\* and starts a refresh; when that refresh has settled it shows the toast
\* "API key created" if the call was a create and leaves the toast alone if
\* it was an update. When the answer is not ok or the fetch rejects it sets
\* error and leaves form, editingId, showForm and apiKeys as they were.
C24_SubmitContract ==
    /\ [][\A i \in 1..MaxOps :
            SubmitMoves(i, "idle", "fetch") =>
                /\ tasks'[i].method = IF hook.editingId = <<>> THEN "POST" ELSE "PUT"
                /\ tasks'[i].id = hook.editingId
                /\ tasks'[i].body = hook.form]_vars
    /\ [][\A i \in 1..MaxOps :
            SubmitMoves(i, "fetch", "refresh") =>
                /\ hook'.form = EmptyForm
                /\ hook'.editingId = <<>>
                /\ ~hook'.showForm
                /\ hook'.loading
                /\ hook'.toastMessage = hook.toastMessage]_vars
    /\ [][\A i \in 1..MaxOps :
            SubmitMoves(i, "refresh", "done") =>
                IF tasks[i].method = "POST"
                THEN hook'.toastMessage = "API key created" /\ hook'.toastType = "success"
                ELSE hook'.toastMessage = hook.toastMessage /\ hook'.toastType = hook.toastType]_vars
    /\ [][\A i \in 1..MaxOps :
            SubmitMoves(i, "fetch", "failed") =>
                /\ hook'.error # ""
                /\ hook'.form = hook.form
                /\ hook'.editingId = hook.editingId
                /\ hook'.showForm = hook.showForm
                /\ hookApiKeys' = hookApiKeys]_vars

\* an update went through and its refresh settled, and a create failed
C24_Witness ==
    \E i, j \in 1..MaxOps :
        /\ tasks[i].kind = "submit" /\ tasks[i].method = "PUT" /\ tasks[i].pc = "done"
        /\ tasks[j].kind = "submit" /\ tasks[j].method = "POST" /\ tasks[j].pc = "failed"
        /\ hook.error # ""
        /\ hook.showForm

====
